---- MODULE Spec2Model ----
(***************************************************************************)
(* Model of the comparison grid of av-benchmark-pro: the App component's   *)
(* state (dimensions, softwares), its handlers, the CSV codec, the         *)
(* localStorage persistence effects and the drag-end reorder of            *)
(* ComparisonTable.                                                        *)
(*                                                                         *)
(* A JavaScript string is modelled as a sequence of one-character strings  *)
(* (<<"a", ",", "b">> is "a,b"); the byte-order mark U+FEFF is the         *)
(* character BOM.  A JavaScript array is a sequence; array indices in the  *)
(* handlers' arguments stay 0-based as in the source.                      *)
(***************************************************************************)
EXTENDS Integers, Sequences, FiniteSets, TLC

VARIABLES
  dimensions,   \* App state: the Dimension list, in display order
  softwares,    \* App state: the Subject list, in display order
  storedDims,   \* localStorage slot av_benchmark_dimensions_v1
  storedSw,     \* localStorage slot av_benchmark_softwares_v1
  effects,      \* persistence effects of the last render still to run
  nextId,       \* number of generateId calls made so far
  pendingRead,  \* FileReader reads in flight: the file and the onload closure
  notice,       \* what the last step showed the user (alert / confirm)
  lastOp,       \* the handler that took the last step, with its arguments
  ops,          \* number of user events handled so far
  trace         \* SpecReorder: the collections before each direct reorder call

vars == <<dimensions, softwares, storedDims, storedSw, effects, nextId,
          pendingRead, notice, lastOp, ops, trace>>

---------------------------------------------------------------------------
(* Bounds of the model.                                                    *)

\* generateId is called at most MaxIds times in a behaviour
MaxIds == 4
\* the Subject list and the Dimension list are never grown by an add
\* beyond MaxLen entries
MaxLen == 3
\* number of direct calls of a reorder handler in SpecReorder
MaxMoves == 2
\* number of user events (clicks, edits, drops, file selections) in a behaviour
MaxOps == 3
\* length of the strings the CSV helper functions are called on in SpecCsv
MaxStr == 3

---------------------------------------------------------------------------
(* Strings.                                                                *)

BOM == "BOM"
QUOTE == "\""
COMMA == ","
LF == "\n"
CR == "\r"
SPACE == " "

\* characters String.prototype.trim and the regexp class \s treat as white space
IsSpace(c) == c \in {SPACE, LF, CR, "\t", BOM}

UpperCase == <<"A","B","C","D","E","F","G","H","I","J","K","L","M",
               "N","O","P","Q","R","S","T","U","V","W","X","Y","Z">>
LowerCase == <<"a","b","c","d","e","f","g","h","i","j","k","l","m",
               "n","o","p","q","r","s","t","u","v","w","x","y","z">>

LowerChar(c) ==
  IF \E i \in 1..Len(UpperCase) : UpperCase[i] = c
  THEN LowerCase[CHOOSE i \in 1..Len(UpperCase) : UpperCase[i] = c]
  ELSE c

\* String.prototype.toLowerCase
toLowerCase(s) == [i \in 1..Len(s) |-> LowerChar(s[i])]

\* String.prototype.includes for a single character
includes(s, c) == \E i \in 1..Len(s) : s[i] = c

RECURSIVE TrimStart(_)
TrimStart(s) ==
  IF s # <<>> /\ IsSpace(Head(s)) THEN TrimStart(Tail(s)) ELSE s

RECURSIVE TrimEnd(_)
TrimEnd(s) ==
  IF s # <<>> /\ IsSpace(s[Len(s)]) THEN TrimEnd(SubSeq(s, 1, Len(s) - 1)) ELSE s

\* String.prototype.trim
trim(s) == TrimEnd(TrimStart(s))

\* str.replace(/"/g, '""')
RECURSIVE DoubleQuotes(_)
DoubleQuotes(s) ==
  IF s = <<>> THEN <<>>
  ELSE (IF Head(s) = QUOTE THEN <<QUOTE, QUOTE>> ELSE <<Head(s)>>)
       \o DoubleQuotes(Tail(s))

\* str.replace(/\s+/g, '_'): every maximal run of white space becomes one "_"
RECURSIVE ReplaceSpaces(_, _)
ReplaceSpaces(s, inRun) ==
  IF s = <<>> THEN <<>>
  ELSE IF IsSpace(Head(s))
       THEN (IF inRun THEN <<>> ELSE <<"_">>) \o ReplaceSpaces(Tail(s), TRUE)
       ELSE <<Head(s)>> \o ReplaceSpaces(Tail(s), FALSE)

\* Array.prototype.join
RECURSIVE join(_, _)
join(parts, sep) ==
  IF parts = <<>> THEN <<>>
  ELSE IF Len(parts) = 1 THEN parts[1]
  ELSE parts[1] \o sep \o join(Tail(parts), sep)

---------------------------------------------------------------------------
(* Numbers and their text.                                                 *)

Digits == <<"0","1","2","3","4","5","6","7","8","9">>

IsDigit(c) == \E i \in 1..10 : Digits[i] = c

DigitValue(c) == (CHOOSE i \in 1..10 : Digits[i] = c) - 1

RECURSIVE NatToText(_)
NatToText(n) ==
  IF n < 10 THEN <<Digits[n + 1]>>
  ELSE NatToText(n \div 10) \o <<Digits[(n % 10) + 1]>>

\* String(n) for an integer n
NumberToText(n) == IF n < 0 THEN <<"-">> \o NatToText(-n) ELSE NatToText(n)

RECURSIVE DigitsValue(_, _)
DigitsValue(s, acc) ==
  IF s = <<>> THEN acc ELSE DigitsValue(Tail(s), acc * 10 + DigitValue(Head(s)))

\* Number(text) on the texts of the model's alphabet, as [nan, value]: white
\* space is trimmed, the empty text is 0, an optionally signed run of digits
\* is its value and anything else is NaN
Number(s) ==
  LET t == trim(s)
      body == IF t # <<>> /\ Head(t) \in {"-", "+"} THEN Tail(t) ELSE t
  IN  IF t = <<>> THEN [nan |-> FALSE, value |-> 0]
      ELSE IF body # <<>> /\ \A i \in 1..Len(body) : IsDigit(body[i])
           THEN [nan |-> FALSE,
                 value |-> IF Head(t) = "-" THEN -DigitsValue(body, 0)
                           ELSE DigitsValue(body, 0)]
           ELSE [nan |-> TRUE, value |-> 0]

\* Number(val) || 0: NaN is falsy
NumberOrZero(s) == IF Number(s).nan THEN 0 ELSE Number(s).value

max(a, b) == IF a > b THEN a ELSE b
min(a, b) == IF a < b THEN a ELSE b

---------------------------------------------------------------------------
(* The CSV helper functions.                                               *)

\* an escapeCSV that wraps the value without doubling its quotes
escapeCSVUndoubled(str) ==
  IF includes(str, COMMA) \/ includes(str, QUOTE) \/ includes(str, LF)
  THEN <<QUOTE>> \o str \o <<QUOTE>>
  ELSE str

escapeCSV(str) ==
  IF includes(str, COMMA) \/ includes(str, QUOTE) \/ includes(str, LF)
  THEN <<QUOTE>> \o DoubleQuotes(str) \o <<QUOTE>>
  ELSE str

\* a loop that ends the field at every comma, also inside quotes
RECURSIVE ParseLoopAnyComma(_, _, _, _, _)
ParseLoopAnyComma(line, i, current, inQuotes, result) ==
  IF i > Len(line) THEN Append(result, current)
  ELSE LET char == line[i] IN
       IF char = QUOTE
       THEN IF inQuotes /\ i + 1 <= Len(line) /\ line[i + 1] = QUOTE
            THEN ParseLoopAnyComma(line, i + 2, Append(current, QUOTE), inQuotes, result)
            ELSE ParseLoopAnyComma(line, i + 1, current, ~inQuotes, result)
       ELSE IF char = COMMA
            THEN ParseLoopAnyComma(line, i + 1, <<>>, inQuotes, Append(result, current))
            ELSE ParseLoopAnyComma(line, i + 1, Append(current, char), inQuotes, result)

\* the loop of parseCSVLine; i is the 1-based position of the next character
RECURSIVE ParseLoop(_, _, _, _, _)
ParseLoop(line, i, current, inQuotes, result) ==
  IF i > Len(line) THEN Append(result, current)
  ELSE LET char == line[i] IN
       IF char = QUOTE
       THEN IF inQuotes /\ i + 1 <= Len(line) /\ line[i + 1] = QUOTE
            THEN ParseLoop(line, i + 2, Append(current, QUOTE), inQuotes, result)
            ELSE ParseLoop(line, i + 1, current, ~inQuotes, result)
       ELSE IF char = COMMA /\ ~inQuotes
            THEN ParseLoop(line, i + 1, <<>>, inQuotes, Append(result, current))
            ELSE ParseLoop(line, i + 1, Append(current, char), inQuotes, result)

parseCSVLine(line) == ParseLoop(line, 1, <<>>, FALSE, <<>>)

\* text.split(/\r?\n/): cut at every "\n", dropping one "\r" right before it;
\* piece k runs from behind the (k-1)-th "\n" to before the k-th
splitLines(text) ==
  LET breaks == {i \in 1..Len(text) : text[i] = LF}
      nth(k) == CHOOSE i \in breaks : Cardinality({j \in breaks : j < i}) = k - 1
      first(k) == IF k = 1 THEN 1 ELSE nth(k - 1) + 1
      last(k) ==
        IF k > Cardinality(breaks) THEN Len(text)
        ELSE IF nth(k) - 1 >= first(k) /\ text[nth(k) - 1] = CR
             THEN nth(k) - 2 ELSE nth(k) - 1
  IN  [k \in 1..(Cardinality(breaks) + 1) |-> SubSeq(text, first(k), last(k))]

\* Array.prototype.filter(line => line.trim() !== '')
nonEmptyLines(ls) == SelectSeq(ls, LAMBDA l : trim(l) # <<>>)

\* FileReader.readAsText: UTF-8 decoding drops one leading byte-order mark
readAsText(file) == IF file # <<>> /\ Head(file) = BOM THEN Tail(file) ELSE file

---------------------------------------------------------------------------
(* Entities and the sparse matrix maps.                                    *)

\* an object used as a map with no key
EmptyMap == [k \in {} |-> 0]

\* { ...m, [k]: v }
Put(m, k, v) == [x \in DOMAIN m \cup {k} |-> IF x = k THEN v ELSE m[x]]

\* sw.scores[dimId] || 0, the reading the table and the export make
scoreOf(sw, dimId) == IF dimId \in DOMAIN sw.scores THEN sw.scores[dimId] ELSE 0

\* sw.descriptions[dimId] || ''
descriptionOf(sw, dimId) ==
  IF dimId \in DOMAIN sw.descriptions THEN sw.descriptions[dimId] ELSE <<>>

\* Object.values(m).reduce((a, b) => a + b, 0)
RECURSIVE SumValues(_)
SumValues(m) ==
  IF DOMAIN m = {} THEN 0
  ELSE LET k == CHOOSE x \in DOMAIN m : TRUE
       IN  m[k] + SumValues([x \in DOMAIN m \ {k} |-> m[x]])

\* the score a new matrix cell gets
DefaultScore == 5

\* the n-th result of generateId: Math.random().toString(36).substr(2, 9) is
\* modelled as collision-free, every call returns a string no earlier call did
generateId(n) == <<"#">> \o NatToText(n)

\* the colours `hsl(${Math.random() * 360}, 70%, 50%)` can produce
RandomColors == {"hsl(120, 70%, 50%)"}

\* name.toLowerCase().replace(/\s+/g, '_') + '_' + generateId()
newDimensionId(name, n) == ReplaceSpaces(toLowerCase(name), FALSE) \o <<"_">> \o generateId(n)

\* the built-in defaults of ./constants
INITIAL_DIMENSIONS ==
  << [id |-> <<"d","e","t">>, name |-> <<"D","e","t">>] >>

INITIAL_SOFTWARES ==
  << [id |-> <<"a">>, name |-> <<"A">>, color |-> "#3b82f6",
      scores |-> Put(EmptyMap, <<"d","e","t">>, 8), descriptions |-> EmptyMap],
     [id |-> <<"b">>, name |-> <<"B">>, color |-> "#ef4444",
      scores |-> Put(EmptyMap, <<"d","e","t">>, 6), descriptions |-> EmptyMap] >>

\* the 0-based index of the first true entry of a sequence of booleans, -1
\* when there is none: Array.prototype.findIndex / find over the tests
firstTrue(tests) ==
  IF \E i \in 1..Len(tests) : tests[i]
  THEN (CHOOSE i \in 1..Len(tests) :
          tests[i] /\ \A j \in 1..(i - 1) : ~tests[j]) - 1
  ELSE -1

\* list.findIndex(e => e.id === id)
findIndexById(list, id) == firstTrue([i \in 1..Len(list) |-> list[i].id = id])

\* list.find(e => e.name === name), as an index
findIndexByName(list, name) == firstTrue([i \in 1..Len(list) |-> list[i].name = name])

---------------------------------------------------------------------------
(* localStorage and JSON.                                                  *)

\* a slot that was never written, a slot whose text JSON.parse rejects, and
\* the text JSON.stringify makes of a value
Absent == [kind |-> "absent", value |-> <<>>]
Corrupt == [kind |-> "corrupt", value |-> <<>>]
\* an array hole, and what JSON.stringify writes for it
Undefined == [undefined |-> TRUE]
Null == [null |-> TRUE]
stringify(v) ==
  [kind |-> "json",
   value |-> [i \in 1..Len(v) |-> IF v[i] = Undefined THEN Null ELSE v[i]]]

\* an initializer without the catch: a text JSON.parse rejects yields no list
loadSlotUncaught(slot, initial) == IF slot.kind = "absent" THEN initial ELSE slot.value

\* the state initializers: saved ? JSON.parse(saved) : INITIAL, and INITIAL
\* when JSON.parse throws
loadSlot(slot, initial) == IF slot.kind = "json" THEN slot.value ELSE initial

---------------------------------------------------------------------------
(* CSV export.                                                             *)

Text_Dimension == <<"D","i","m","e","n","s","i","o","n">>
Text_Type == <<"T","y","p","e">>
Text_Score == <<"S","c","o","r","e">>
Text_Description == <<"D","e","s","c","r","i","p","t","i","o","n">>

\* an export that writes the Description row of a Dimension before its
\* Score row
handleExportCSVDescriptionFirst(dims, sws) ==
  LET headers == <<Text_Dimension, Text_Type>> \o [i \in 1..Len(sws) |-> escapeCSV(sws[i].name)]
      scoreRow(dim) ==
        <<escapeCSV(dim.name), Text_Score>>
          \o [i \in 1..Len(sws) |-> NumberToText(scoreOf(sws[i], dim.id))]
      descRow(dim) ==
        <<escapeCSV(dim.name), Text_Description>>
          \o [i \in 1..Len(sws) |-> escapeCSV(descriptionOf(sws[i], dim.id))]
      rowsOf[k \in 0..Len(dims)] ==
        IF k = 0 THEN <<join(headers, <<COMMA>>)>>
        ELSE rowsOf[k - 1] \o <<join(descRow(dims[k]), <<COMMA>>),
                                 join(scoreRow(dims[k]), <<COMMA>>)>>
  IN  <<BOM>> \o join(rowsOf[Len(dims)], <<LF>>)

\* the csvString of handleExportCSV: the header row, then per Dimension a
\* Score row and a Description row, joined by "\n" behind a byte-order mark
handleExportCSV(dims, sws) ==
  LET headers == <<Text_Dimension, Text_Type>> \o [i \in 1..Len(sws) |-> escapeCSV(sws[i].name)]
      scoreRow(dim) ==
        <<escapeCSV(dim.name), Text_Score>>
          \o [i \in 1..Len(sws) |-> NumberToText(scoreOf(sws[i], dim.id))]
      descRow(dim) ==
        <<escapeCSV(dim.name), Text_Description>>
          \o [i \in 1..Len(sws) |-> escapeCSV(descriptionOf(sws[i], dim.id))]
      rowsOf[k \in 0..Len(dims)] ==
        IF k = 0 THEN <<join(headers, <<COMMA>>)>>
        ELSE rowsOf[k - 1] \o <<join(scoreRow(dims[k]), <<COMMA>>),
                                 join(descRow(dims[k]), <<COMMA>>)>>
  IN  <<BOM>> \o join(rowsOf[Len(dims)], <<LF>>)

---------------------------------------------------------------------------
(* CSV import (the replacing variant of handleFileChange).                 *)

\* a step 1 that also takes over the maps of the Subject it matched
RECURSIVE importSoftwaresKeepingMaps(_, _, _, _, _, _)
importSoftwaresKeepingMaps(names, k, closureSw, color, n, acc) ==
  IF k > Len(names) THEN [list |-> acc, next |-> n]
  ELSE LET trimmedName == trim(names[k])
           at == findIndexByName(closureSw, trimmedName)
           sw == [id |-> IF at # -1 THEN closureSw[at + 1].id ELSE generateId(n + 1),
                  name |-> trimmedName,
                  color |-> IF at # -1 THEN closureSw[at + 1].color ELSE color[k],
                  scores |-> IF at # -1 THEN closureSw[at + 1].scores ELSE EmptyMap,
                  descriptions |-> IF at # -1 THEN closureSw[at + 1].descriptions ELSE EmptyMap]
       IN  importSoftwaresKeepingMaps(names, k + 1, closureSw, color,
                                      IF at # -1 THEN n ELSE n + 1, Append(acc, sw))

\* step 1 of reader.onload: one new Subject per header name, reusing the id
\* and colour of the first Subject of the closure's list with that name;
\* color[k] is the random colour drawn for the k-th name, n the generateId
\* calls made before
RECURSIVE importSoftwares(_, _, _, _, _, _)
importSoftwares(names, k, closureSw, color, n, acc) ==
  IF k > Len(names) THEN [list |-> acc, next |-> n]
  ELSE LET trimmedName == trim(names[k])
           at == findIndexByName(closureSw, trimmedName)
           sw == [id |-> IF at # -1 THEN closureSw[at + 1].id ELSE generateId(n + 1),
                  name |-> trimmedName,
                  color |-> IF at # -1 THEN closureSw[at + 1].color ELSE color[k],
                  scores |-> EmptyMap,
                  descriptions |-> EmptyMap]
       IN  importSoftwares(names, k + 1, closureSw, color,
                           IF at # -1 THEN n ELSE n + 1, Append(acc, sw))

\* values.forEach of one data row: cell k goes to the k-th new Subject
assignRow(sws, type, dimId, values) ==
  [k \in 1..Len(sws) |->
     IF k > Len(values) THEN sws[k]
     ELSE IF type = toLowerCase(Text_Score)
          THEN [sws[k] EXCEPT !.scores = Put(@, dimId, NumberOrZero(values[k]))]
          ELSE IF type = toLowerCase(Text_Description)
               THEN [sws[k] EXCEPT !.descriptions = Put(@, dimId, values[k])]
               ELSE sws[k]]

\* step 2 of reader.onload: the loop over the data rows
RECURSIVE importRows(_, _, _, _, _)
importRows(lines, i, newDimensions, newSoftwares, n) ==
  IF i > Len(lines)
  THEN [dims |-> newDimensions, sws |-> newSoftwares, next |-> n]
  ELSE LET row == parseCSVLine(lines[i]) IN
       IF Len(row) < 3
       THEN importRows(lines, i + 1, newDimensions, newSoftwares, n)
       ELSE LET dimName == trim(row[1])
                type == toLowerCase(trim(row[2]))
                values == SubSeq(row, 3, Len(row))
                at == findIndexByName(newDimensions, dimName)
                dim == IF at # -1 THEN newDimensions[at + 1]
                       ELSE [id |-> newDimensionId(dimName, n + 1), name |-> dimName]
            IN  importRows(lines, i + 1,
                           IF at # -1 THEN newDimensions ELSE Append(newDimensions, dim),
                           assignRow(newSoftwares, type, dim.id, values),
                           IF at # -1 THEN n ELSE n + 1)

\* the body of reader.onload up to the confirm dialog: "silent" is the
\* early return on an empty text, "failed" the catch block, "empty" the
\* empty-list alert, "parsed" a result ready to replace the state
parseImport(text, closureSw, color, n) ==
  LET lines == nonEmptyLines(splitLines(text))
      headers == parseCSVLine(lines[1])
      sw == importSoftwares(SubSeq(headers, 3, Len(headers)), 1, closureSw, color, n, <<>>)
      res == importRows(lines, 2, <<>>, sw.list, sw.next)
      none == [dims |-> <<>>, sws |-> <<>>, next |-> n]
  IN  IF text = <<>> THEN [status |-> "silent"] @@ none
      ELSE IF Len(lines) < 2 THEN [status |-> "failed"] @@ none
      ELSE IF Len(headers) < 3 THEN [status |-> "failed"] @@ none
      ELSE IF Len(res.dims) = 0 \/ Len(res.sws) = 0
           THEN [status |-> "empty"] @@ res
           ELSE [status |-> "parsed"] @@ res

---------------------------------------------------------------------------
(* CSV import, the merging variant of handleFileChange (the second App).   *)

\* softwareNames.forEach: a header name that matches no Subject of the list
\* built so far appends a new Subject; ids[k] is softwareIdMap[k - 1]
RECURSIVE mergeSoftwares(_, _, _, _, _, _)
mergeSoftwares(names, k, updatedSoftwares, idMap, color, n) ==
  IF k > Len(names) THEN [list |-> updatedSoftwares, ids |-> idMap, next |-> n]
  ELSE LET cleanName == trim(names[k])
           at == findIndexByName(updatedSoftwares, cleanName)
           created == [id |-> generateId(n + 1), name |-> cleanName, color |-> color[k],
                       scores |-> EmptyMap, descriptions |-> EmptyMap]
       IN  IF at # -1
           THEN mergeSoftwares(names, k + 1, updatedSoftwares,
                               Append(idMap, updatedSoftwares[at + 1].id), color, n)
           ELSE mergeSoftwares(names, k + 1, Append(updatedSoftwares, created),
                               Append(idMap, created.id), color, n + 1)

\* values.forEach of one data row: cell k goes to the first Subject that has
\* the id softwareIdMap holds for column k
RECURSIVE mergeRow(_, _, _, _, _, _)
mergeRow(sws, type, dimId, values, idMap, k) ==
  IF k > Len(values) THEN sws
  ELSE LET swIndex == IF k <= Len(idMap) THEN findIndexById(sws, idMap[k]) ELSE -1
           updated ==
             IF swIndex = -1 THEN sws
             ELSE IF type = toLowerCase(Text_Score)
                  THEN [sws EXCEPT ![swIndex + 1].scores = Put(@, dimId, NumberOrZero(values[k]))]
                  ELSE IF type = toLowerCase(Text_Description)
                       THEN [sws EXCEPT ![swIndex + 1].descriptions = Put(@, dimId, values[k])]
                       ELSE sws
       IN  mergeRow(updated, type, dimId, values, idMap, k + 1)

\* the loop over the data rows
RECURSIVE mergeRows(_, _, _, _, _, _)
mergeRows(lines, i, updatedDimensions, updatedSoftwares, idMap, n) ==
  IF i > Len(lines)
  THEN [dims |-> updatedDimensions, sws |-> updatedSoftwares, next |-> n]
  ELSE LET row == parseCSVLine(lines[i]) IN
       IF Len(row) < 3
       THEN mergeRows(lines, i + 1, updatedDimensions, updatedSoftwares, idMap, n)
       ELSE LET dimName == trim(row[1])
                type == toLowerCase(trim(row[2]))
                values == SubSeq(row, 3, Len(row))
                at == findIndexByName(updatedDimensions, dimName)
                dim == IF at # -1 THEN updatedDimensions[at + 1]
                       ELSE [id |-> newDimensionId(dimName, n + 1), name |-> dimName]
            IN  mergeRows(lines, i + 1,
                          IF at # -1 THEN updatedDimensions ELSE Append(updatedDimensions, dim),
                          mergeRow(updatedSoftwares, type, dim.id, values, idMap, 1),
                          idMap,
                          IF at # -1 THEN n ELSE n + 1)

\* the body of the merging reader.onload: "silent" is the early return on an
\* empty text, "failed" the catch block, "merged" a result that is committed
parseMerge(text, closureSw, closureDims, color, n) ==
  LET lines == nonEmptyLines(splitLines(text))
      headers == parseCSVLine(lines[1])
      sw == mergeSoftwares(SubSeq(headers, 3, Len(headers)), 1, closureSw, <<>>, color, n)
      res == mergeRows(lines, 2, closureDims, sw.list, sw.ids, sw.next)
      none == [dims |-> <<>>, sws |-> <<>>, next |-> n]
  IN  IF text = <<>> THEN [status |-> "silent"] @@ none
      ELSE IF Len(lines) < 2 THEN [status |-> "failed"] @@ none
      ELSE IF Len(headers) < 3 THEN [status |-> "failed"] @@ none
      ELSE [status |-> "merged"] @@ res

---------------------------------------------------------------------------
(* Pure parts of the handlers.                                             *)

\* the score input's onChange: Math.max(0, Math.min(10, Number(e.target.value)))
clampScore(raw) == max(0, min(10, raw))

\* the updater of handleScoreUpdate
scoreUpdated(prev, softwareId, dimensionId, value) ==
  [i \in 1..Len(prev) |->
     IF prev[i].id = softwareId
     THEN [prev[i] EXCEPT !.scores = Put(@, dimensionId, value)] ELSE prev[i]]

\* the updater of handleSaveDescription
descriptionSaved(prev, swId, dimId, text) ==
  [i \in 1..Len(prev) |->
     IF prev[i].id = swId
     THEN [prev[i] EXCEPT !.descriptions = Put(@, dimId, text)] ELSE prev[i]]

\* the updater of handleUpdateSoftwareDetails
detailsUpdated(prev, id, name, color) ==
  [i \in 1..Len(prev) |->
     IF prev[i].id = id THEN [prev[i] EXCEPT !.name = name, !.color = color] ELSE prev[i]]

\* the updater of handleUpdateDimensionName
dimensionRenamed(prev, id, name) ==
  [i \in 1..Len(prev) |-> IF prev[i].id = id THEN [prev[i] EXCEPT !.name = name] ELSE prev[i]]

\* a reduce that drops the accumulator: only the last Dimension gets a score
defaultScoresOfLast(dims) ==
  [k \in {dims[i].id : i \in {Len(dims)} \cap (1..Len(dims))} |-> DefaultScore]

\* dimensions.reduce((acc, dim) => ({ ...acc, [dim.id]: 5 }), {})
defaultScores(dims) ==
  [k \in {dims[i].id : i \in 1..Len(dims)} |-> DefaultScore]

\* an updater that forgets to spread the previous scores
withOnlyNewDimension(prev, newId) ==
  [i \in 1..Len(prev) |-> [prev[i] EXCEPT !.scores = Put(EmptyMap, newId, DefaultScore)]]

\* the updater of handleAddDimension: every Subject gets the new key
withNewDimension(prev, newId) ==
  [i \in 1..Len(prev) |-> [prev[i] EXCEPT !.scores = Put(@, newId, DefaultScore)]]

\* prev.filter(e => e.id !== id)
without(prev, id) == SelectSeq(prev, LAMBDA e : e.id # id)

\* Array.prototype.splice(start, deleteCount, ...items) on a copy:
\* the start index is clamped into 0..length as the language defines
spliceStart(len, start) ==
  IF start < 0 THEN max(len + start, 0) ELSE min(start, len)

\* a reorder that inserts at the target index of the array as it was before
\* the removal, so that a move towards the end lands one place short
arrayMoveInsertFirst(array, from, to) ==
  LET len == Len(array)
      moved == array[from + 1]
      withCopy == SubSeq(array, 1, to) \o <<moved>> \o SubSeq(array, to + 1, len)
      gone == IF from < to THEN from + 1 ELSE from + 2
  IN  IF from \in 0..(len - 1) /\ to \in 0..(len - 1)
      THEN SubSeq(withCopy, 1, gone - 1) \o SubSeq(withCopy, gone + 1, len + 1)
      ELSE array

\* arrayMove of @dnd-kit/sortable, which the reorder handlers call:
\*   newArray = array.slice();
\*   newArray.splice(to < 0 ? newArray.length + to : to, 0,
\*                   newArray.splice(from, 1)[0]);
\* from and to are 0-based; removing past the end removes nothing and yields
\* undefined, which is then inserted
arrayMove(array, from, to) ==
  LET len == Len(array)
      target == IF to < 0 THEN len + to ELSE to
      cut == spliceStart(len, from)
      removed == IF cut < len THEN array[cut + 1] ELSE Undefined
      rest == IF cut < len
              THEN SubSeq(array, 1, cut) \o SubSeq(array, cut + 2, len)
              ELSE array
      at == spliceStart(Len(rest), target)
  IN  SubSeq(rest, 1, at) \o <<removed>> \o SubSeq(rest, at + 1, Len(rest))

\* the reduce of the "best overall" card: the name shown, or none
NoLeader == [none |-> TRUE]
RECURSIVE leaderLoop(_, _, _)
leaderLoop(sws, i, prev) ==
  IF i > Len(sws) THEN prev
  ELSE LET prevTotal == SumValues(prev.scores)
           currTotal == SumValues(sws[i].scores)
       IN  leaderLoop(sws, i + 1, IF prevTotal > currTotal THEN prev ELSE sws[i])

leader(sws) == IF Len(sws) > 0 THEN leaderLoop(sws, 2, sws[1]) ELSE NoLeader

---------------------------------------------------------------------------
(* Inputs the user can give.                                               *)

\* numbers typed into a score input
RawScores == {-1, 12}
\* names typed into the add-software and add-dimension dialogs
NewSoftwareNames == {<<"A">>, <<SPACE>>}
NewDimensionNames == {<<"D","e","t">>, <<SPACE>>}
\* names and colours typed into the edit popovers
EditNames == {<<"B">>, <<>>}
EditColors == {"#22c55e"}
\* texts typed into the description dialog
DescriptionTexts == {<<"a", LF, "b">>}

\* files the user can pick in the import dialog, besides an export of the grid
File_Empty == <<>>
File_OneLine == Text_Dimension \o <<COMMA>> \o Text_Type \o <<COMMA, "X">>
File_ShortHeader ==
  Text_Dimension \o <<COMMA>> \o Text_Type \o <<LF, "P", COMMA>> \o Text_Score
File_NoRows ==
  Text_Dimension \o <<COMMA>> \o Text_Type \o <<COMMA, "X", LF, "P", COMMA>> \o Text_Score
File_Repeats ==
  Text_Dimension \o <<COMMA>> \o Text_Type \o <<COMMA, "A", COMMA, "A", LF>>
    \o <<"P", COMMA>> \o Text_Score \o <<COMMA, "1", "5", COMMA, "x">>
Files == {File_Empty, File_OneLine, File_ShortHeader, File_NoRows, File_Repeats}

\* over.id of a drop with no target
NoTarget == <<"null">>

ids(list) == {list[i].id : i \in 1..Len(list)}

\* list.map(e => e.name)
names(list) == [i \in 1..Len(list) |-> list[i].name]

---------------------------------------------------------------------------
(* The state machine.                                                      *)

Init ==
  /\ storedDims \in {Absent, Corrupt}
  /\ storedSw \in {Absent, Corrupt}
  /\ dimensions = loadSlot(storedDims, INITIAL_DIMENSIONS)
  /\ softwares = loadSlot(storedSw, INITIAL_SOFTWARES)
  /\ effects = <<"dimensions", "softwares">>
  /\ nextId = 0
  /\ pendingRead = <<>>
  /\ notice = "none"
  /\ lastOp = [op |-> "mount", x |-> <<>>, y |-> <<>>]
  /\ ops = 0
  /\ trace = <<>>

\* a user event is handled once the effects of the previous render have run
Ready == effects = <<>> /\ ops < MaxOps

\* bookkeeping common to the user events
Handled(op, x, y) ==
  /\ lastOp' = [op |-> op, x |-> x, y |-> y]
  /\ ops' = ops + 1
  /\ UNCHANGED <<storedDims, storedSw, trace>>

\* the effect of [dimensions]: localStorage.setItem(STORAGE_KEY_DIMS, ...)
PersistDimensions ==
  /\ effects # <<>> /\ Head(effects) = "dimensions"
  /\ storedDims' = stringify(dimensions)
  /\ effects' = Tail(effects)
  /\ lastOp' = [op |-> "persistDimensions", x |-> <<>>, y |-> <<>>]
  /\ UNCHANGED <<dimensions, softwares, storedSw, nextId, pendingRead, notice, ops, trace>>

\* an effect of [softwares] that writes the other list under STORAGE_KEY_SW
PersistSoftwaresOfDimensions ==
  /\ effects # <<>> /\ Head(effects) = "softwares"
  /\ storedSw' = stringify(dimensions)
  /\ effects' = Tail(effects)
  /\ lastOp' = [op |-> "persistSoftwares", x |-> <<>>, y |-> <<>>]
  /\ UNCHANGED <<dimensions, softwares, storedDims, nextId, pendingRead, notice, ops, trace>>

\* the effect of [softwares]: localStorage.setItem(STORAGE_KEY_SW, ...)
PersistSoftwares ==
  /\ effects # <<>> /\ Head(effects) = "softwares"
  /\ storedSw' = stringify(softwares)
  /\ effects' = Tail(effects)
  /\ lastOp' = [op |-> "persistSoftwares", x |-> <<>>, y |-> <<>>]
  /\ UNCHANGED <<dimensions, softwares, storedDims, nextId, pendingRead, notice, ops, trace>>

\* the score input's onChange of cell (softwares[i], dimensions[k]), then
\* handleScoreUpdate
ScoreInputChange(i, k, raw) ==
  /\ Ready
  /\ softwares' = scoreUpdated(softwares, softwares[i].id, dimensions[k].id, clampScore(raw))
  /\ effects' = <<"softwares">>
  /\ notice' = "none"
  /\ UNCHANGED <<dimensions, nextId, pendingRead>>
  /\ Handled("handleScoreUpdate", softwares[i].id, dimensions[k].id)

\* handleOpenDescriptionModal on cell (softwares[i], dimensions[k]), the text
\* typed, then handleSaveDescription
SaveDescription(i, k, text) ==
  /\ Ready
  /\ softwares' = descriptionSaved(softwares, softwares[i].id, dimensions[k].id, text)
  /\ effects' = <<"softwares">>
  /\ notice' = "none"
  /\ UNCHANGED <<dimensions, nextId, pendingRead>>
  /\ Handled("handleSaveDescription", softwares[i].id, dimensions[k].id)

\* SortableHeader.handleSave, then handleUpdateSoftwareDetails
UpdateSoftwareDetails(i, name, color) ==
  /\ Ready
  /\ softwares' = detailsUpdated(softwares, softwares[i].id, name, color)
  /\ effects' = <<"softwares">>
  /\ notice' = "none"
  /\ UNCHANGED <<dimensions, nextId, pendingRead>>
  /\ Handled("handleUpdateSoftwareDetails", softwares[i].id, name)

\* SortableRow.handleSave, which calls handleUpdateDimensionName only for a
\* name that is not blank
UpdateDimensionName(k, name) ==
  /\ Ready
  /\ IF trim(name) # <<>>
     THEN /\ dimensions' = dimensionRenamed(dimensions, dimensions[k].id, name)
          /\ effects' = <<"dimensions">>
     ELSE UNCHANGED <<dimensions, effects>>
  /\ notice' = "none"
  /\ UNCHANGED <<softwares, nextId, pendingRead>>
  /\ Handled("handleUpdateDimensionName", dimensions[k].id, name)

handleAddSoftware(newSoftwareName, color) ==
  /\ Ready
  /\ IF trim(newSoftwareName) = <<>>
     THEN UNCHANGED <<softwares, effects, nextId>>
     ELSE /\ nextId < MaxIds /\ Len(softwares) < MaxLen
          /\ softwares' = Append(softwares,
                [id |-> generateId(nextId + 1),
                 name |-> newSoftwareName,
                 color |-> color,
                 scores |-> defaultScores(dimensions),
                 descriptions |-> EmptyMap])
          /\ effects' = <<"softwares">>
          /\ nextId' = nextId + 1
  /\ notice' = "none"
  /\ UNCHANGED <<dimensions, pendingRead>>
  /\ Handled("handleAddSoftware", newSoftwareName, <<>>)

handleAddDimension(newDimensionName) ==
  /\ Ready
  /\ IF trim(newDimensionName) = <<>>
     THEN UNCHANGED <<dimensions, softwares, effects, nextId>>
     ELSE /\ nextId < MaxIds /\ Len(dimensions) < MaxLen
          /\ LET newId == newDimensionId(newDimensionName, nextId + 1) IN
               /\ softwares' = withNewDimension(softwares, newId)
               /\ dimensions' = Append(dimensions, [id |-> newId, name |-> newDimensionName])
          /\ effects' = <<"dimensions", "softwares">>
          /\ nextId' = nextId + 1
  /\ notice' = "none"
  /\ UNCHANGED pendingRead
  /\ Handled("handleAddDimension", newDimensionName, <<>>)

\* confirmed is the answer to window.confirm
handleDeleteSoftware(id, confirmed) ==
  /\ Ready
  /\ IF confirmed
     THEN /\ softwares' = without(softwares, id)
          /\ effects' = <<"softwares">>
     ELSE UNCHANGED <<softwares, effects>>
  /\ notice' = IF confirmed THEN "confirmed" ELSE "cancelled"
  /\ UNCHANGED <<dimensions, nextId, pendingRead>>
  /\ Handled("handleDeleteSoftware", id, <<>>)

\* a delete that also prunes the deleted id from every Subject's maps
handleDeleteDimensionPruning(id, confirmed) ==
  /\ Ready
  /\ IF confirmed
     THEN /\ dimensions' = without(dimensions, id)
          /\ softwares' = [i \in 1..Len(softwares) |->
                [softwares[i] EXCEPT
                   !.scores = [k \in DOMAIN @ \ {id} |-> @[k]],
                   !.descriptions = [k \in DOMAIN @ \ {id} |-> @[k]]]]
          /\ effects' = <<"dimensions", "softwares">>
     ELSE UNCHANGED <<dimensions, softwares, effects>>
  /\ notice' = IF confirmed THEN "confirmed" ELSE "cancelled"
  /\ UNCHANGED <<nextId, pendingRead>>
  /\ Handled("handleDeleteDimension", id, <<>>)

handleDeleteDimension(id, confirmed) ==
  /\ Ready
  /\ IF confirmed
     THEN /\ dimensions' = without(dimensions, id)
          /\ effects' = <<"dimensions">>
     ELSE UNCHANGED <<dimensions, effects>>
  /\ notice' = IF confirmed THEN "confirmed" ELSE "cancelled"
  /\ UNCHANGED <<softwares, nextId, pendingRead>>
  /\ Handled("handleDeleteDimension", id, <<>>)

\* a reset that forgets setSoftwares(INITIAL_SOFTWARES)
handleResetDimensionsOnly(confirmed) ==
  /\ Ready
  /\ IF confirmed
     THEN /\ dimensions' = INITIAL_DIMENSIONS
          /\ effects' = <<"dimensions">>
     ELSE UNCHANGED <<dimensions, effects>>
  /\ notice' = IF confirmed THEN "confirmed" ELSE "cancelled"
  /\ UNCHANGED <<softwares, nextId, pendingRead>>
  /\ Handled("handleReset", <<>>, <<>>)

handleReset(confirmed) ==
  /\ Ready
  /\ IF confirmed
     THEN /\ dimensions' = INITIAL_DIMENSIONS
          /\ softwares' = INITIAL_SOFTWARES
          /\ effects' = <<"dimensions", "softwares">>
     ELSE UNCHANGED <<dimensions, softwares, effects>>
  /\ notice' = IF confirmed THEN "confirmed" ELSE "cancelled"
  /\ UNCHANGED <<nextId, pendingRead>>
  /\ Handled("handleReset", <<>>, <<>>)

\* the state change of handleReorderSoftwares(oldIndex, newIndex)
handleReorderSoftwares(oldIndex, newIndex) ==
  /\ softwares' = arrayMove(softwares, oldIndex, newIndex)
  /\ effects' = <<"softwares">>
  /\ notice' = "none"
  /\ UNCHANGED <<dimensions, nextId, pendingRead>>

\* the state change of handleReorderDimensions(oldIndex, newIndex)
handleReorderDimensions(oldIndex, newIndex) ==
  /\ dimensions' = arrayMove(dimensions, oldIndex, newIndex)
  /\ effects' = <<"dimensions">>
  /\ notice' = "none"
  /\ UNCHANGED <<softwares, nextId, pendingRead>>

\* a drag-end handler that calls the reorder without testing the indices
\* it found
handleDragEndUnchecked(activeId, overId) ==
  /\ Ready
  /\ LET isSoftware == activeId \in ids(softwares)
         isDimension == activeId \in ids(dimensions)
     IN  IF overId = NoTarget \/ activeId = overId
         THEN /\ UNCHANGED <<dimensions, softwares, effects, nextId, pendingRead>>
              /\ notice' = "none"
         ELSE IF isSoftware
         THEN handleReorderSoftwares(findIndexById(softwares, activeId),
                                     findIndexById(softwares, overId))
         ELSE IF isDimension
         THEN handleReorderDimensions(findIndexById(dimensions, activeId),
                                      findIndexById(dimensions, overId))
         ELSE /\ UNCHANGED <<dimensions, softwares, effects, nextId, pendingRead>>
              /\ notice' = "none"
  /\ Handled("handleDragEnd", activeId, overId)

\* ComparisonTable.handleDragEnd with active.id and over.id (NoTarget: no over)
handleDragEnd(activeId, overId) ==
  /\ Ready
  /\ LET isSoftware == activeId \in ids(softwares)
         isDimension == activeId \in ids(dimensions)
         swOld == findIndexById(softwares, activeId)
         swNew == findIndexById(softwares, overId)
         dimOld == findIndexById(dimensions, activeId)
         dimNew == findIndexById(dimensions, overId)
     IN  IF overId = NoTarget \/ activeId = overId
         THEN /\ UNCHANGED <<dimensions, softwares, effects, nextId, pendingRead>>
              /\ notice' = "none"
         ELSE IF isSoftware /\ swOld # -1 /\ swNew # -1
         THEN handleReorderSoftwares(swOld, swNew)
         ELSE IF ~isSoftware /\ isDimension /\ dimOld # -1 /\ dimNew # -1
         THEN handleReorderDimensions(dimOld, dimNew)
         ELSE /\ UNCHANGED <<dimensions, softwares, effects, nextId, pendingRead>>
              /\ notice' = "none"
  /\ Handled("handleDragEnd", activeId, overId)

\* handleFileChange: the file is handed to a FileReader whose onload closes
\* over the softwares and dimensions of this render
handleFileChange(file) ==
  /\ Ready
  /\ pendingRead = <<>>
  /\ pendingRead' = <<[file |-> file, softwares |-> softwares, dimensions |-> dimensions]>>
  /\ notice' = "none"
  /\ UNCHANGED <<dimensions, softwares, effects, nextId>>
  /\ Handled("handleFileChange", <<>>, <<>>)

\* reader.onload; color[k] is the random colour of the k-th header name and
\* confirmed the answer to window.confirm
readerOnload(color, confirmed) ==
  /\ effects = <<>>
  /\ pendingRead # <<>>
  /\ LET text == readAsText(pendingRead[1].file)
         r == parseImport(text, pendingRead[1].softwares, color, nextId)
     IN  /\ r.next <= MaxIds
         /\ nextId' = r.next
         /\ IF r.status = "parsed" /\ confirmed
            THEN /\ dimensions' = r.dims
                 /\ softwares' = r.sws
                 /\ effects' = <<"dimensions", "softwares">>
                 /\ notice' = "imported"
            ELSE /\ UNCHANGED <<dimensions, softwares, effects>>
                 /\ notice' = CASE r.status = "parsed" -> "importCancelled"
                                [] r.status = "empty" -> "alertEmpty"
                                [] r.status = "failed" -> "alertFailed"
                                [] OTHER -> "none"
  /\ pendingRead' = <<>>
  /\ lastOp' = [op |-> "readerOnload", x |-> pendingRead[1].file, y |-> <<>>]
  /\ UNCHANGED <<storedDims, storedSw, ops, trace>>

Cells == {<<i, k>> : i \in 1..Len(softwares), k \in 1..Len(dimensions)}

Next ==
  \/ PersistDimensions
  \/ PersistSoftwares
  \/ \E c \in Cells, raw \in RawScores : ScoreInputChange(c[1], c[2], raw)
  \/ \E c \in Cells, text \in DescriptionTexts : SaveDescription(c[1], c[2], text)
  \/ \E i \in 1..Len(softwares), name \in EditNames, color \in EditColors :
       UpdateSoftwareDetails(i, name, color)
  \/ \E k \in 1..Len(dimensions), name \in EditNames : UpdateDimensionName(k, name)
  \/ \E name \in NewSoftwareNames, color \in RandomColors : handleAddSoftware(name, color)
  \/ \E name \in NewDimensionNames : handleAddDimension(name)
  \/ \E id \in ids(softwares), confirmed \in BOOLEAN : handleDeleteSoftware(id, confirmed)
  \/ \E id \in ids(dimensions), confirmed \in BOOLEAN : handleDeleteDimension(id, confirmed)
  \/ \E confirmed \in BOOLEAN : handleReset(confirmed)
  \/ \E activeId \in ids(softwares) \cup ids(dimensions),
        overId \in ids(softwares) \cup ids(dimensions) \cup {NoTarget} :
       handleDragEnd(activeId, overId)
  \/ \E file \in Files \cup {handleExportCSV(dimensions, softwares)} : handleFileChange(file)
  \/ \E color \in [1..MaxLen -> RandomColors], confirmed \in BOOLEAN :
       readerOnload(color, confirmed)

Spec == Init /\ [][Next]_vars

---------------------------------------------------------------------------
(* SpecLive: the App with the scheduling React gives the effects: an       *)
(* effect that is due runs.                                                *)

SpecLive == Spec /\ WF_vars(PersistDimensions) /\ WF_vars(PersistSoftwares)

---------------------------------------------------------------------------
(* SpecReorder: the reorder handlers called directly, with any indices, on *)
(* collections the program can hold.                                       *)

\* a Subject handleAddSoftware made and two Dimensions handleAddDimension made
AddedSoftware ==
  [id |-> generateId(1), name |-> <<"C">>, color |-> "hsl(120, 70%, 50%)",
   scores |-> defaultScores(INITIAL_DIMENSIONS), descriptions |-> EmptyMap]
AddedDimensions ==
  << [id |-> newDimensionId(<<"P">>, 2), name |-> <<"P">>],
     [id |-> newDimensionId(<<"Q">>, 3), name |-> <<"Q">>] >>

\* every order of every selection of the entities of pool
Arrangements(pool) ==
  LET n == Len(pool)
      picks == UNION {[1..m -> 1..n] : m \in 0..n}
      injective(f) == \A a, b \in DOMAIN f : f[a] = f[b] => a = b
  IN  {[a \in DOMAIN f |-> pool[f[a]]] : f \in {g \in picks : injective(g)}}

InitReorder ==
  /\ \/ /\ softwares \in Arrangements(INITIAL_SOFTWARES \o <<AddedSoftware>>)
        /\ dimensions = INITIAL_DIMENSIONS
     \/ /\ softwares = INITIAL_SOFTWARES
        /\ dimensions \in Arrangements(INITIAL_DIMENSIONS \o AddedDimensions)
  /\ storedDims = Absent
  /\ storedSw = Absent
  /\ effects = <<"dimensions", "softwares">>
  /\ nextId = 3
  /\ pendingRead = <<>>
  /\ notice = "none"
  /\ lastOp = [op |-> "mount", x |-> <<>>, y |-> <<>>]
  /\ ops = 0
  /\ trace = <<>>

Grid == [dimensions |-> dimensions, softwares |-> softwares]

\* bookkeeping of a direct call; a behaviour exercises one of the two handlers
Traced(list, oldIndex, newIndex) ==
  /\ effects = <<>>
  /\ Len(trace) < MaxMoves
  /\ trace # <<>> => trace[1].list = list
  /\ trace' = Append(trace, [list |-> list, oldIndex |-> oldIndex, newIndex |-> newIndex,
                             before |-> Grid, after |-> Grid'])
  /\ lastOp' = [op |-> list, x |-> oldIndex, y |-> newIndex]
  /\ UNCHANGED <<storedDims, storedSw, ops>>

CallReorderSoftwares(oldIndex, newIndex) ==
  handleReorderSoftwares(oldIndex, newIndex) /\ Traced("softwares", oldIndex, newIndex)

CallReorderDimensions(oldIndex, newIndex) ==
  handleReorderDimensions(oldIndex, newIndex) /\ Traced("dimensions", oldIndex, newIndex)

NextReorder ==
  \/ PersistDimensions
  \/ PersistSoftwares
  \/ \E oldIndex, newIndex \in -1..Len(softwares) : CallReorderSoftwares(oldIndex, newIndex)
  \/ \E oldIndex, newIndex \in -1..Len(dimensions) : CallReorderDimensions(oldIndex, newIndex)

SpecReorder == InitReorder /\ [][NextReorder]_vars

---------------------------------------------------------------------------
(* SpecImport: the first App exporting its grid and importing files, among *)
(* them the files it exported.                                             *)

Text_Perf == <<"P","e","r","f">>

\* Dimension,Type,X,Y / Perf,Score,7,9 / Perf,Description,"good, fast",ok
File_Example ==
  Text_Dimension \o <<COMMA>> \o Text_Type \o <<COMMA, "X", COMMA, "Y", LF>>
    \o Text_Perf \o <<COMMA>> \o Text_Score \o <<COMMA, "7", COMMA, "9", LF>>
    \o Text_Perf \o <<COMMA>> \o Text_Description
    \o <<COMMA, QUOTE, "g","o","o","d", COMMA, SPACE, "f","a","s","t", QUOTE, COMMA, "o","k">>

\* Dimension,Type,"A,""B",B / P,Description,d / Q,Score,3: a quoted name,
\* rows shorter than the header, a Dimension without a Score row
File_Gaps ==
  Text_Dimension \o <<COMMA>> \o Text_Type
    \o <<COMMA, QUOTE, "A", COMMA, QUOTE, QUOTE, "B", QUOTE, COMMA, "B", LF>>
    \o <<"P", COMMA>> \o Text_Description \o <<COMMA, "d", LF>>
    \o <<"Q", COMMA>> \o Text_Score \o <<COMMA, "3">>

\* Dimension,Type,A / P,Description,a\r / Q,Score,1 with the first data line
\* ended by "\r\n": the description of A for P is "a\r"
File_TrailingCR ==
  Text_Dimension \o <<COMMA>> \o Text_Type \o <<COMMA, "A", LF>>
    \o <<"P", COMMA>> \o Text_Description \o <<COMMA, "a", CR, CR, LF>>
    \o <<"Q", COMMA>> \o Text_Score \o <<COMMA, "1">>

ImportFiles == {File_Example, File_Gaps, File_TrailingCR}

InitImport ==
  /\ storedDims = Absent /\ storedSw = Absent
  /\ dimensions = INITIAL_DIMENSIONS /\ softwares = INITIAL_SOFTWARES
  /\ effects = <<"dimensions", "softwares">>
  /\ nextId = 0 /\ pendingRead = <<>> /\ notice = "none"
  /\ lastOp = [op |-> "mount", x |-> <<>>, y |-> <<>>]
  /\ ops = 0
  /\ trace = <<>>

\* the click on the export button: handleExportCSV downloads csvString; trace
\* keeps the file with the grid it was made of and whether that grid was
\* the result of an import
ExportCSV ==
  /\ Ready
  /\ trace' = <<[csv |-> handleExportCSV(dimensions, softwares),
                 dimensions |-> dimensions,
                 softwares |-> softwares,
                 imported |-> notice = "imported"]>>
  /\ lastOp' = [op |-> "handleExportCSV", x |-> <<>>, y |-> <<>>]
  /\ ops' = ops + 1
  /\ notice' = "none"
  /\ UNCHANGED <<dimensions, softwares, storedDims, storedSw, effects, nextId, pendingRead>>

\* the files downloaded so far
Downloads == {trace[k].csv : k \in 1..Len(trace)}

NextImport ==
  \/ PersistDimensions
  \/ PersistSoftwares
  \/ ExportCSV
  \/ \E file \in ImportFiles \cup Downloads : handleFileChange(file)
  \/ \E color \in [1..MaxLen -> RandomColors], confirmed \in BOOLEAN :
       readerOnload(color, confirmed)
  \/ \E c \in Cells, text \in DescriptionTexts : SaveDescription(c[1], c[2], text)

SpecImport == InitImport /\ [][NextImport]_vars

---------------------------------------------------------------------------
(* SpecMerge: the second App, whose import merges the file into the lists  *)
(* and which keeps no snapshot in localStorage.                            *)

InitMerge ==
  /\ storedDims = Absent /\ storedSw = Absent
  /\ dimensions = INITIAL_DIMENSIONS /\ softwares = INITIAL_SOFTWARES
  /\ effects = <<>> /\ nextId = 0 /\ pendingRead = <<>> /\ notice = "none"
  /\ lastOp = [op |-> "mount", x |-> <<>>, y |-> <<>>]
  /\ ops = 0
  /\ trace = <<>>

\* handleDeleteSoftware of the second App: no confirm dialog
Merge_handleDeleteSoftware(id) ==
  /\ Ready
  /\ softwares' = without(softwares, id)
  /\ notice' = "none"
  /\ UNCHANGED <<dimensions, effects, nextId, pendingRead>>
  /\ Handled("handleDeleteSoftware", id, <<>>)

\* handleDeleteDimension of the second App: no confirm dialog
Merge_handleDeleteDimension(id) ==
  /\ Ready
  /\ dimensions' = without(dimensions, id)
  /\ notice' = "none"
  /\ UNCHANGED <<softwares, effects, nextId, pendingRead>>
  /\ Handled("handleDeleteDimension", id, <<>>)

\* reader.onload of the second App: the merged lists are committed without
\* a confirm dialog and without a check for an empty list
Merge_readerOnload(color) ==
  /\ pendingRead # <<>>
  /\ LET text == readAsText(pendingRead[1].file)
         r == parseMerge(text, pendingRead[1].softwares, pendingRead[1].dimensions,
                         color, nextId)
     IN  /\ r.next <= MaxIds
         /\ nextId' = r.next
         /\ IF r.status = "merged"
            THEN /\ softwares' = r.sws
                 /\ dimensions' = r.dims
                 /\ notice' = "alertSuccess"
            ELSE /\ UNCHANGED <<dimensions, softwares>>
                 /\ notice' = IF r.status = "failed" THEN "alertFailed" ELSE "none"
  /\ pendingRead' = <<>>
  /\ lastOp' = [op |-> "readerOnload", x |-> pendingRead[1].file, y |-> <<>>]
  /\ UNCHANGED <<storedDims, storedSw, effects, ops, trace>>

NextMerge ==
  \/ \E id \in ids(softwares) : Merge_handleDeleteSoftware(id)
  \/ \E id \in ids(dimensions) : Merge_handleDeleteDimension(id)
  \/ \E file \in Files \cup {handleExportCSV(dimensions, softwares)} : handleFileChange(file)
  \/ \E color \in [1..MaxLen -> RandomColors] : Merge_readerOnload(color)

SpecMerge == InitMerge /\ [][NextMerge]_vars

---------------------------------------------------------------------------
(* SpecCsv: the CSV helper functions called directly on any short string.  *)

\* the characters the helpers tell apart, and an ordinary one
CsvChars == {COMMA, QUOTE, LF, SPACE, "a"}
Strings(n) == UNION {[1..k -> CsvChars] : k \in 0..n}

InitCsv ==
  /\ storedDims = Absent /\ storedSw = Absent
  /\ dimensions = INITIAL_DIMENSIONS /\ softwares = INITIAL_SOFTWARES
  /\ effects = <<>> /\ nextId = 0 /\ pendingRead = <<>> /\ notice = "none"
  /\ lastOp = [op |-> "mount", x |-> <<>>, y |-> <<>>]
  /\ ops = 0
  /\ trace = <<>>

\* escapeCSV(str); trace keeps the argument and the result
CallEscapeCSV(str) ==
  /\ trace' = <<[str |-> str, escaped |-> escapeCSV(str), parsed |-> FALSE, fields |-> <<>>]>>
  /\ lastOp' = [op |-> "escapeCSV", x |-> str, y |-> <<>>]
  /\ UNCHANGED <<dimensions, softwares, storedDims, storedSw, effects, nextId,
                  pendingRead, notice, ops>>

\* parseCSVLine on the text escapeCSV returned
CallParseCSVLine ==
  /\ trace # <<>> /\ ~trace[1].parsed
  /\ trace' = <<[trace[1] EXCEPT !.parsed = TRUE, !.fields = parseCSVLine(trace[1].escaped)]>>
  /\ lastOp' = [op |-> "parseCSVLine", x |-> trace[1].escaped, y |-> <<>>]
  /\ UNCHANGED <<dimensions, softwares, storedDims, storedSw, effects, nextId,
                  pendingRead, notice, ops>>

NextCsv ==
  \/ \E str \in Strings(MaxStr) : CallEscapeCSV(str)
  \/ CallParseCSVLine

SpecCsv == InitCsv /\ [][NextCsv]_vars

---------------------------------------------------------------------------
(* SpecSummary: generateComparisonAnalysis called on the grid of the first *)
(* App while the user edits scores; the call to the external service is    *)
(* one step and its answer another.                                        *)

Text_KeyMissing == "API Key is missing. Please ensure process.env.API_KEY is set."
Text_NoAnalysis == "No analysis generated."
Text_FailedAnalysis == "Failed to generate analysis. Please try again later."

\* what ai.models.generateContent can do: resolve with a response whose text
\* is a string, the empty string or undefined, or reject
ServiceOutcomes ==
  { [kind |-> "text", text |-> "## Summary"],
    [kind |-> "text", text |-> ""],
    [kind |-> "undefined", text |-> ""],
    [kind |-> "rejected", text |-> ""] }

\* the object dataContext is the JSON text of
dataContext(dims, sws) ==
  [dimensions |-> names(dims),
   software_comparison |-> [i \in 1..Len(sws) |-> [name |-> sws[i].name, scores |-> sws[i].scores]]]

\* a try block that returns response.text as it is
analysisResultUnguarded(outcome) ==
  IF outcome.kind = "rejected" THEN Text_FailedAnalysis ELSE outcome.text

\* the try block: response.text || "No analysis generated.", and the catch
analysisResult(outcome) ==
  IF outcome.kind = "rejected" THEN Text_FailedAnalysis
  ELSE IF outcome.kind = "undefined" \/ outcome.text = "" THEN Text_NoAnalysis
  ELSE outcome.text

InitSummary ==
  /\ storedDims = Absent /\ storedSw = Absent
  /\ dimensions = INITIAL_DIMENSIONS /\ softwares = INITIAL_SOFTWARES
  /\ effects = <<"dimensions", "softwares">>
  /\ nextId = 0 /\ pendingRead = <<>> /\ notice = "none"
  /\ lastOp = [op |-> "mount", x |-> <<>>, y |-> <<>>]
  /\ ops = 0
  /\ trace = <<>>

\* generateComparisonAnalysis(dimensions, softwares) up to its first return
\* or await; apiKey tells whether process.env.API_KEY is set.  trace keeps
\* the call: the request sent if one was, the answer and the value the
\* promise resolved with
CallGenerateAnalysis(apiKey) ==
  /\ \A k \in 1..Len(trace) : trace[k].settled
  /\ trace' = <<[apiKey |-> apiKey,
                 request |-> IF apiKey THEN <<dataContext(dimensions, softwares)>> ELSE <<>>,
                 settled |-> ~apiKey,
                 outcome |-> <<>>,
                 result |-> IF apiKey THEN "" ELSE Text_KeyMissing,
                 before |-> Grid]>>
  /\ lastOp' = [op |-> "generateComparisonAnalysis", x |-> <<>>, y |-> <<>>]
  /\ UNCHANGED <<dimensions, softwares, storedDims, storedSw, effects, nextId,
                  pendingRead, notice, ops>>

\* the awaited generateContent settles and the function returns
ServiceSettles(outcome) ==
  /\ trace # <<>> /\ ~trace[1].settled
  /\ trace' = <<[trace[1] EXCEPT !.settled = TRUE,
                                 !.outcome = <<outcome>>,
                                 !.result = analysisResult(outcome)]>>
  /\ lastOp' = [op |-> "generateContent", x |-> <<>>, y |-> <<>>]
  /\ UNCHANGED <<dimensions, softwares, storedDims, storedSw, effects, nextId,
                  pendingRead, notice, ops>>

NextSummary ==
  \/ PersistDimensions
  \/ PersistSoftwares
  \/ \E c \in Cells, raw \in RawScores : ScoreInputChange(c[1], c[2], raw)
  \/ \E apiKey \in BOOLEAN : CallGenerateAnalysis(apiKey)
  \/ \E outcome \in ServiceOutcomes : ServiceSettles(outcome)

SpecSummary == InitSummary /\ [][NextSummary]_vars

---------------------------------------------------------------------------
(* SpecStartup: the first App started, and started again by a reload of    *)
(* the page, on slots an earlier session or another program has written.   *)

\* lists an earlier session left in a slot: every Dimension deleted, the
\* first default Subject deleted
StoredDimensionLists == {<<>>}
StoredSoftwareLists == {<<INITIAL_SOFTWARES[2]>>}

InitStartup ==
  /\ storedDims \in {Absent, Corrupt} \cup {stringify(l) : l \in StoredDimensionLists}
  /\ storedSw \in {Absent, Corrupt} \cup {stringify(l) : l \in StoredSoftwareLists}
  /\ dimensions = loadSlot(storedDims, INITIAL_DIMENSIONS)
  /\ softwares = loadSlot(storedSw, INITIAL_SOFTWARES)
  /\ effects = <<"dimensions", "softwares">>
  /\ nextId = 0
  /\ pendingRead = <<>>
  /\ notice = "none"
  /\ lastOp = [op |-> "mount", x |-> <<>>, y |-> <<>>]
  /\ ops = 0
  /\ trace = <<>>

\* the page is loaded again: the state initializers run on the slots as they
\* are and the effects of the first render are due
Reload ==
  /\ Ready
  /\ dimensions' = loadSlot(storedDims, INITIAL_DIMENSIONS)
  /\ softwares' = loadSlot(storedSw, INITIAL_SOFTWARES)
  /\ effects' = <<"dimensions", "softwares">>
  /\ pendingRead' = <<>>
  /\ notice' = "none"
  /\ UNCHANGED nextId
  /\ Handled("mount", <<>>, <<>>)

NextStartup ==
  \/ PersistDimensions
  \/ PersistSoftwares
  \/ \E c \in Cells, raw \in RawScores : ScoreInputChange(c[1], c[2], raw)
  \/ \E id \in ids(dimensions), confirmed \in BOOLEAN : handleDeleteDimension(id, confirmed)
  \/ \E id \in ids(softwares), confirmed \in BOOLEAN : handleDeleteSoftware(id, confirmed)
  \/ Reload

SpecStartup == InitStartup /\ [][NextStartup]_vars

---------------------------------------------------------------------------
(* Claims about reorder.                                                   *)

\* the collection a traced call worked on, before and after it
Before(m) == m.before[m.list]
After(m) == m.after[m.list]
Other(m) == IF m.list = "softwares" THEN "dimensions" ELSE "softwares"

InBounds(m) ==
  /\ m.oldIndex \in 0..(Len(Before(m)) - 1)
  /\ m.newIndex \in 0..(Len(Before(m)) - 1)

\* list without its element at the 0-based index
Dropped(list, index) == SubSeq(list, 1, index) \o SubSeq(list, index + 2, Len(list))

\* C7: a reorder with valid indices oldIndex # newIndex yields a sequence of
\* the same length holding the same entities, unchanged in every field, with
\* the moved entity at newIndex and the others in their previous relative
\* order; the other collection is untouched.
ReorderMovesOneEntity ==
  \A k \in 1..Len(trace) :
    LET m == trace[k] IN
    (InBounds(m) /\ m.oldIndex # m.newIndex) =>
      /\ Len(After(m)) = Len(Before(m))
      /\ After(m)[m.newIndex + 1] = Before(m)[m.oldIndex + 1]
      /\ Dropped(After(m), m.newIndex) = Dropped(Before(m), m.oldIndex)
      /\ {After(m)[i] : i \in 1..Len(After(m))} = {Before(m)[i] : i \in 1..Len(Before(m))}
      /\ m.after[Other(m)] = m.before[Other(m)]

\* a move across at least one other entity of a three-entity collection
ReorderMovedAcross ==
  \E k \in 1..Len(trace) :
    /\ InBounds(trace[k])
    /\ Len(Before(trace[k])) = 3
    /\ trace[k].oldIndex = 0 /\ trace[k].newIndex = 2
    /\ After(trace[k]) # Before(trace[k])

\* C8: reorder(i, j) followed by reorder(j, i) on the same collection, for
\* valid i and j, restores the original order exactly.
ReorderInverseRestores ==
  \A k \in 1..(Len(trace) - 1) :
    LET m == trace[k]
        r == trace[k + 1]
    IN  (/\ InBounds(m)
         /\ r.list = m.list
         /\ r.oldIndex = m.newIndex
         /\ r.newIndex = m.oldIndex) => After(r) = Before(m)

\* a move and its inverse have both been applied to a three-entity collection
ReorderInverseApplied ==
  /\ Len(trace) = 2
  /\ InBounds(trace[1])
  /\ trace[2].list = trace[1].list
  /\ Len(Before(trace[1])) = 3
  /\ trace[1].oldIndex = 0 /\ trace[1].newIndex = 2
  /\ trace[2].oldIndex = 2 /\ trace[2].newIndex = 0
  /\ After(trace[1]) # Before(trace[1])

---------------------------------------------------------------------------
(* Claims about the grid.                                                  *)

\* two grids with the same Dimension names and Subject names, in order, and
\* the same score and description in every (subject, dimension) cell
SameGrid(dims, sws, dims2, sws2) ==
  /\ names(dims2) = names(dims)
  /\ names(sws2) = names(sws)
  /\ \A i \in 1..Len(sws), k \in 1..Len(dims) :
       /\ scoreOf(sws2[i], dims2[k].id) = scoreOf(sws[i], dims[k].id)
       /\ descriptionOf(sws2[i], dims2[k].id) = descriptionOf(sws[i], dims[k].id)

\* the step is reader.onload
OnloadStep == pendingRead # <<>> /\ lastOp'.op = "readerOnload"

\* C1: for every reachable grid, exporting it and importing that file
\* unmodified (the user confirming the dialog) yields a grid with the same
\* Dimension names and Subject names in the same order and the same score
\* and description in every cell.
ExportImportRoundTrip ==
  [][(/\ OnloadStep
      /\ pendingRead[1].file = handleExportCSV(dimensions, softwares)
      /\ notice' # "importCancelled")
     => (/\ notice' = "imported"
         /\ SameGrid(dimensions, softwares, dimensions', softwares'))]_vars

\* a text the import must reject: fewer than 2 non-empty lines, or a header
\* of fewer than 3 fields
FormatError(text) ==
  LET lines == nonEmptyLines(splitLines(text))
  IN  Len(lines) < 2 \/ Len(parseCSVLine(lines[1])) < 3

\* C2: an import whose input is a format error leaves the Dimension list and
\* the Subject list exactly as they were and ends in a reported failure.
FormatErrorIsReported ==
  [][(OnloadStep /\ FormatError(readAsText(pendingRead[1].file)))
     => (/\ dimensions' = dimensions
         /\ softwares' = softwares
         /\ notice' = "alertFailed")]_vars

\* C3: a successful import replaces both lists as one step; in particular
\* the pair of persisted slots never holds the imported Dimensions with the
\* pre-import Subjects, nor the imported Subjects with the pre-import
\* Dimensions (the slots held the pre-import lists when onload ran).
ImportPersistedAtomically ==
  notice = "imported" =>
    /\ ~(storedDims = stringify(dimensions) /\ storedSw # stringify(softwares))
    /\ ~(storedSw = stringify(softwares) /\ storedDims # stringify(dimensions))

\* C4: every score stored in any Subject's scores map is an integer in 0..10.
ScoresInRange ==
  \A i \in 1..Len(softwares) :
    \A key \in DOMAIN softwares[i].scores : softwares[i].scores[key] \in 0..10

\* C5: no two Subjects share an id and no two Dimensions share an id.
IdsUnique ==
  /\ \A i, j \in 1..Len(softwares) : softwares[i].id = softwares[j].id => i = j
  /\ \A i, j \in 1..Len(dimensions) : dimensions[i].id = dimensions[j].id => i = j

total(sw) == SumValues(sw.scores)

\* C6: leader() is none for an empty Subject list; otherwise it is the first
\* Subject, in display order, whose sum of scores is maximal.
LeaderIsFirstMaximal ==
  IF Len(softwares) = 0 THEN leader(softwares) = NoLeader
  ELSE \E i \in 1..Len(softwares) :
         /\ leader(softwares) = softwares[i]
         /\ \A j \in 1..Len(softwares) : total(softwares[j]) <= total(softwares[i])
         /\ \A j \in 1..(i - 1) : total(softwares[j]) < total(softwares[i])

\* C10: handleAddDimension with a non-blank name appends one Dimension with
\* a new id at the end of the Dimension order and gives every Subject the
\* score 5 under that id; every other score, every description, every other
\* field of every Subject and the Subject order are unchanged.
AddDimensionFrame ==
  [][(lastOp'.op = "handleAddDimension" /\ trim(lastOp'.x) # <<>>)
     => LET n == Len(dimensions)
            newDim == dimensions'[n + 1]
        IN  /\ Len(dimensions') = n + 1
            /\ SubSeq(dimensions', 1, n) = dimensions
            /\ newDim.name = lastOp'.x
            /\ newDim.id \notin ids(dimensions)
            /\ Len(softwares') = Len(softwares)
            /\ \A i \in 1..Len(softwares) :
                 LET old == softwares[i]
                     new == softwares'[i]
                 IN  /\ new.id = old.id /\ new.name = old.name /\ new.color = old.color
                     /\ new.descriptions = old.descriptions
                     /\ DOMAIN new.scores = DOMAIN old.scores \cup {newDim.id}
                     /\ new.scores[newDim.id] = DefaultScore
                     /\ \A key \in DOMAIN old.scores \ {newDim.id} :
                          new.scores[key] = old.scores[key]]_vars

\* a Dimension has just been added to a grid whose Subjects hold other scores
AddDimensionActed ==
  /\ lastOp.op = "handleAddDimension" /\ trim(lastOp.x) # <<>>
  /\ Len(dimensions) >= 2
  /\ Len(softwares) >= 2
  /\ \A i \in 1..Len(softwares) :
       /\ softwares[i].scores[dimensions[Len(dimensions)].id] = DefaultScore
       /\ \E key \in DOMAIN softwares[i].scores : softwares[i].scores[key] # DefaultScore

\* C11: handleAddSoftware with a name that is not blank appends one Subject
\* at the end of the Subject order, whose scores map holds 5 for exactly the
\* ids of the current Dimensions and whose descriptions map is empty; the
\* Subjects that existed and the Dimensions are unchanged.
AddSubjectFrame ==
  [][(lastOp'.op = "handleAddSoftware" /\ trim(lastOp'.x) # <<>>)
     => LET n == Len(softwares)
            newSw == softwares'[n + 1]
        IN  /\ Len(softwares') = n + 1
            /\ SubSeq(softwares', 1, n) = softwares
            /\ dimensions' = dimensions
            /\ newSw.name = lastOp'.x
            /\ newSw.id \notin ids(softwares)
            /\ DOMAIN newSw.scores = ids(dimensions)
            /\ \A key \in DOMAIN newSw.scores : newSw.scores[key] = DefaultScore
            /\ newSw.descriptions = EmptyMap]_vars

\* a Subject has just been added to a grid of two Dimensions
AddSubjectActed ==
  /\ lastOp.op = "handleAddSoftware" /\ trim(lastOp.x) # <<>>
  /\ Len(dimensions) = 2
  /\ Len(softwares) = 3
  /\ DOMAIN softwares[3].scores = ids(dimensions)

EscapeParseRoundTrip ==
  \A k \in 1..Len(trace) : trace[k].parsed => trace[k].fields = <<trace[k].str>>

\* a value holding a comma, a double quote and a newline went through both
EscapeParseActed ==
  /\ trace # <<>> /\ trace[1].parsed
  /\ trace[1].str = <<COMMA, QUOTE, LF>>
  /\ trace[1].escaped # trace[1].str

\* the trimmed header fields from index 2 onward of a file's text
HeaderNames(text) ==
  LET headers == parseCSVLine(nonEmptyLines(splitLines(text))[1])
  IN  [k \in 1..(Len(headers) - 2) |-> trim(headers[k + 2])]

\* ids minted by the generateId calls of the step
MintedIds == {generateId(j) : j \in (nextId + 1)..nextId'}

\* C14: a successful import makes one Subject per header field from index 2
\* onward, in header order; a trimmed header name equal to the name of a
\* Subject of the current collection yields that Subject's id and colour,
\* any other header name a freshly minted id.
ImportReconcilesSubjects ==
  [][(OnloadStep /\ notice' = "imported")
     => LET hn == HeaderNames(readAsText(pendingRead[1].file))
        IN  /\ Len(softwares') = Len(hn)
            /\ \A k \in 1..Len(hn) :
                 /\ softwares'[k].name = hn[k]
                 /\ IF \E i \in 1..Len(softwares) : softwares[i].name = hn[k]
                    THEN \E i \in 1..Len(softwares) :
                           /\ softwares[i].name = hn[k]
                           /\ softwares'[k].id = softwares[i].id
                           /\ softwares'[k].color = softwares[i].color
                    ELSE softwares'[k].id \in MintedIds]_vars

\* a text that parses without a format error and whose data rows all have
\* fewer than 3 fields, so that no Dimension is resolved
NoDataRows(text) ==
  LET lines == nonEmptyLines(splitLines(text))
  IN  /\ text # <<>>
      /\ ~FormatError(text)
      /\ \A i \in 2..Len(lines) : Len(parseCSVLine(lines[i])) < 3

\* C15: an import that parses without error but resolves no Dimension (a
\* file whose data rows all have fewer than 3 fields) is treated as a
\* failure: the live lists are left unchanged and the user is told so.
EmptyImportIsRejected ==
  [][(OnloadStep /\ NoDataRows(readAsText(pendingRead[1].file)))
     => (/\ dimensions' = dimensions
         /\ softwares' = softwares
         /\ notice' \in {"alertEmpty", "alertFailed"})]_vars

\* reader.onload has just replaced the grid by the content of the file
Imported(file) ==
  lastOp.op = "readerOnload" /\ lastOp.x = file /\ notice = "imported"

Text_GoodFast == <<"g","o","o","d", COMMA, SPACE, "f","a","s","t">>

\* the grid has the one Dimension Perf and the Subjects X, Y with the scores
\* 7 and 9 and the descriptions descX and <<"o","k">> for Perf
ExampleGrid(descX) ==
  /\ names(dimensions) = <<Text_Perf>>
  /\ names(softwares) = << <<"X">>, <<"Y">> >>
  /\ scoreOf(softwares[1], dimensions[1].id) = 7
  /\ descriptionOf(softwares[1], dimensions[1].id) = descX
  /\ scoreOf(softwares[2], dimensions[1].id) = 9
  /\ descriptionOf(softwares[2], dimensions[1].id) = <<"o","k">>

\* C16 as stated: importing the example file gives one Dimension Perf and
\* the Subjects X, Y in this order, X with score 7 and an empty description,
\* Y with score 9 and the description ok.
ExampleImportAsStated == Imported(File_Example) => ExampleGrid(<<>>)

\* C16 amended: importing the example file gives one Dimension Perf and the
\* Subjects X, Y in this order, X with score 7 and the description
\* "good, fast", Y with score 9 and the description ok.
ExampleImport == Imported(File_Example) => ExampleGrid(Text_GoodFast)

\* the example file has just been imported
ExampleImported ==
  /\ Imported(File_Example)
  /\ Len(softwares) = 2 /\ Len(dimensions) = 1
  /\ DOMAIN softwares[1].descriptions = {dimensions[1].id}

\* C17: for every state that is the result of a successful import,
\* exporting that state and importing the export again (the user confirming)
\* yields a state with the same Dimension names, Subject names, scores and
\* descriptions.
ReimportIsIdempotent ==
  [][(/\ OnloadStep
      /\ trace # <<>>
      /\ trace[1].imported
      /\ trace[1].dimensions = dimensions /\ trace[1].softwares = softwares
      /\ pendingRead[1].file = trace[1].csv
      /\ notice' # "importCancelled")
     => (/\ notice' = "imported"
         /\ SameGrid(dimensions, softwares, dimensions', softwares'))]_vars

\* the records of a CSV text as a reader that knows quotes sees them: cut at
\* every "\n" that has an even number of double quotes before it, each
\* record split into its fields
CsvRecords(text) ==
  LET quotesBefore(i) == Cardinality({j \in 1..(i - 1) : text[j] = QUOTE})
      breaks == {i \in 1..Len(text) : text[i] = LF /\ quotesBefore(i) % 2 = 0}
      nth(k) == CHOOSE i \in breaks : Cardinality({j \in breaks : j < i}) = k - 1
      first(k) == IF k = 1 THEN 1 ELSE nth(k - 1) + 1
      last(k) == IF k > Cardinality(breaks) THEN Len(text) ELSE nth(k) - 1
  IN  [k \in 1..(Cardinality(breaks) + 1) |-> parseCSVLine(SubSeq(text, first(k), last(k)))]

\* the rows the export of a grid must hold, field by field
ExpectedRecords(dims, sws) ==
  LET score(sw, dim) == IF dim.id \in DOMAIN sw.scores THEN sw.scores[dim.id] ELSE 0
      description(sw, dim) ==
        IF dim.id \in DOMAIN sw.descriptions THEN sw.descriptions[dim.id] ELSE <<>>
  IN  [r \in 1..(1 + 2 * Len(dims)) |->
         IF r = 1 THEN <<Text_Dimension, Text_Type>> \o names(sws)
         ELSE IF r % 2 = 0
              THEN <<dims[r \div 2].name, Text_Score>>
                     \o [i \in 1..Len(sws) |-> NumberToText(score(sws[i], dims[r \div 2]))]
              ELSE <<dims[r \div 2].name, Text_Description>>
                     \o [i \in 1..Len(sws) |-> description(sws[i], dims[r \div 2])]]

\* C18: the export holds one header row with the Subject names in Subject
\* order behind the two fixed fields, then for every Dimension in Dimension
\* order one Score row and one Description row with one value per Subject
\* in header order; an absent score is written as 0 and an absent
\* description as an empty field.
ExportFormat ==
  \A k \in 1..Len(trace) :
    CsvRecords(readAsText(trace[k].csv)) = ExpectedRecords(trace[k].dimensions, trace[k].softwares)

\* a grid with a quoted name, an absent score, an absent description and a
\* description holding a newline has been exported
ExportFormatActed ==
  /\ trace # <<>>
  /\ Len(trace[1].dimensions) = 2
  /\ \E i \in 1..Len(trace[1].softwares) : includes(trace[1].softwares[i].name, COMMA)
  /\ \E i \in 1..Len(trace[1].softwares), d \in 1..2 :
       /\ trace[1].dimensions[d].id \notin DOMAIN trace[1].softwares[i].scores
       /\ trace[1].dimensions[d].id \notin DOMAIN trace[1].softwares[i].descriptions
  /\ \E i \in 1..Len(trace[1].softwares), d \in 1..2 :
       /\ trace[1].dimensions[d].id \in DOMAIN trace[1].softwares[i].descriptions
       /\ includes(trace[1].softwares[i].descriptions[trace[1].dimensions[d].id], LF)

\* both slots hold the serialization of the live lists
InSync ==
  /\ storedDims = stringify(dimensions)
  /\ storedSw = stringify(softwares)

\* C19: after every committed mutation each slot is eventually rewritten to
\* the serialization of its live collection: whenever a snapshot write is
\* due, a state follows in which none is due and both slots equal the live
\* lists.
SnapshotsFollow == (effects # <<>>) ~> (effects = <<>> /\ InSync)

\* the snapshots of an import that changed both lists have been written
SnapshotsWritten ==
  /\ lastOp.op = "persistSoftwares" /\ notice = "imported"
  /\ effects = <<>> /\ InSync
  /\ dimensions # INITIAL_DIMENSIONS /\ softwares # INITIAL_SOFTWARES

\* a confirmed reset has just been handled
ResetDone == lastOp.op = "handleReset" /\ notice = "confirmed"

\* C20: a confirmed reset sets both live lists to the built-in defaults
\* whatever the state before, and after the snapshot writes that follow
\* both slots hold the defaults as well.
ResetRestoresDefaults ==
  /\ [](ResetDone => (dimensions = INITIAL_DIMENSIONS /\ softwares = INITIAL_SOFTWARES))
  /\ ResetDone ~> (/\ dimensions = INITIAL_DIMENSIONS /\ softwares = INITIAL_SOFTWARES
                   /\ storedDims = stringify(INITIAL_DIMENSIONS)
                   /\ storedSw = stringify(INITIAL_SOFTWARES))

\* a reset has been confirmed in a state whose lists and slots held
\* something other than the defaults
ResetActed ==
  /\ ResetDone
  /\ storedDims # stringify(INITIAL_DIMENSIONS)
  /\ storedSw # stringify(INITIAL_SOFTWARES)

---------------------------------------------------------------------------
(* Claims about the summary generator and the startup load.                *)

\* C21: every call of generateComparisonAnalysis resolves with a text and
\* never rejects: without credentials it resolves at once with the fixed
\* text about the missing key and sends no request, on a rejected request
\* with the fixed failure text, on an empty or absent response text with the
\* fixed "no analysis" text, and otherwise with the response text; neither
\* step of the call changes the Dimension list or the Subject list.
SummaryAlwaysText ==
  /\ [](\A k \in 1..Len(trace) :
          LET c == trace[k] IN
          /\ ~c.apiKey => (c.settled /\ c.request = <<>> /\ c.result = Text_KeyMissing)
          /\ (c.apiKey /\ c.settled) =>
               /\ c.result # ""
               /\ c.outcome[1].kind = "rejected" => c.result = Text_FailedAnalysis
               /\ (c.outcome[1].kind = "undefined" \/ c.outcome[1] = [kind |-> "text", text |-> ""])
                    => c.result = Text_NoAnalysis
               /\ (c.outcome[1].kind = "text" /\ c.outcome[1].text # "")
                    => c.result = c.outcome[1].text)
  /\ [][lastOp'.op \in {"generateComparisonAnalysis", "generateContent"}
        => (dimensions' = dimensions /\ softwares' = softwares)]_vars

\* a call made with credentials got an empty response text, while a score
\* was edited between the request and the answer
SummaryFellBack ==
  /\ trace # <<>> /\ trace[1].apiKey /\ trace[1].settled
  /\ trace[1].outcome = <<[kind |-> "text", text |-> ""]>>
  /\ trace[1].result = Text_NoAnalysis
  /\ trace[1].before # Grid
  /\ lastOp.op = "generateContent"

\* C22: when the App starts, each list is loaded from its own slot: a slot
\* that is absent or holds a text that does not parse gives the built-in
\* default of that list, whatever the other slot holds, a slot that parses
\* gives the list it holds, and the App is mounted with its first effects due.
StartupLoadsEachSlot ==
  lastOp.op = "mount" =>
    /\ effects = <<"dimensions", "softwares">>
    /\ storedDims.kind \in {"absent", "corrupt"} => dimensions = INITIAL_DIMENSIONS
    /\ storedDims.kind = "json" => dimensions = storedDims.value
    /\ storedSw.kind \in {"absent", "corrupt"} => softwares = INITIAL_SOFTWARES
    /\ storedSw.kind = "json" => softwares = storedSw.value

\* the App has started on a Dimension slot that does not parse and a
\* Subject slot that holds another list than the default
StartedOnCorruptSlot ==
  /\ lastOp.op = "mount"
  /\ storedDims = Corrupt
  /\ storedSw.kind = "json" /\ storedSw.value # INITIAL_SOFTWARES
  /\ dimensions = INITIAL_DIMENSIONS
  /\ softwares = storedSw.value

---------------------------------------------------------------------------
(* Claims about import reconciliation, delete and the leader.              *)

\* C23: after a successful import every Dimension whose name is the name of
\* a Dimension of the list before the import has that Dimension's id, so
\* that importing an export of the unmodified grid regenerates no Dimension
\* id.
ImportKeepsDimensionIds ==
  [][(OnloadStep /\ notice' = "imported")
     => \A k \in 1..Len(dimensions') :
          (\E i \in 1..Len(dimensions) : dimensions[i].name = dimensions'[k].name)
            => \E i \in 1..Len(dimensions) :
                 /\ dimensions[i].name = dimensions'[k].name
                 /\ dimensions'[k].id = dimensions[i].id]_vars

\* C24: a confirmed handleDeleteDimension(id) removes exactly one Dimension,
\* the one with that id, and leaves the order of the other Dimensions, the
\* Subject order and every Subject's scores and descriptions, the entries
\* under the deleted id included, unchanged.
DeleteDimensionFrame ==
  [][(lastOp'.op = "handleDeleteDimension" /\ notice' = "confirmed")
     => /\ \E k \in 1..Len(dimensions) :
             /\ dimensions[k].id = lastOp'.x
             /\ dimensions' = Dropped(dimensions, k - 1)
        /\ softwares' = softwares]_vars

\* one of two Dimensions has just been deleted and a Subject still holds a
\* score and a description under its id
DeleteDimensionActed ==
  /\ lastOp.op = "handleDeleteDimension" /\ notice = "confirmed"
  /\ Len(dimensions) = 1
  /\ lastOp.x \notin ids(dimensions)
  /\ \E i \in 1..Len(softwares) :
       /\ lastOp.x \in DOMAIN softwares[i].scores
       /\ lastOp.x \in DOMAIN softwares[i].descriptions

\* the sum of the scores a Subject holds under the ids of the Dimensions of
\* the list
liveTotal(sw, dims) ==
  SumValues([k \in DOMAIN sw.scores \cap ids(dims) |-> sw.scores[k]])

\* C25: the Subject leader() picks depends only on the scores under ids of
\* Dimensions of the list: no Subject has a higher sum of such scores than
\* the one picked, whatever is left under the ids of deleted Dimensions.
LeaderIgnoresDeadScores ==
  Len(softwares) > 0 =>
    \E i \in 1..Len(softwares) :
      /\ leader(softwares) = softwares[i]
      /\ \A j \in 1..Len(softwares) :
           liveTotal(softwares[j], dimensions) <= liveTotal(softwares[i], dimensions)

\* C26: an import reconciles against the lists live when the read
\* completes: every Subject of the result has the id of a Subject live at
\* that moment or an id minted by the import itself, never the id of a
\* Subject that was deleted after the file was selected.
ImportUsesLiveSubjects ==
  [][(OnloadStep /\ notice' \in {"imported", "alertSuccess"})
     => \A k \in 1..Len(softwares') :
          softwares'[k].id \in ids(softwares) \cup MintedIds]_vars

\* C27: right after a successful replacing import every key of every
\* Subject's scores map and descriptions map is the id of a Dimension of
\* the imported list.
ImportLeavesNoDeadKeys ==
  (lastOp.op = "readerOnload" /\ notice = "imported") =>
    \A i \in 1..Len(softwares) :
      /\ DOMAIN softwares[i].scores \subseteq ids(dimensions)
      /\ DOMAIN softwares[i].descriptions \subseteq ids(dimensions)

\* a grid has just been imported over one whose Subjects held scores under
\* the id of a deleted Dimension (the slots still hold the lists from before
\* the import), and a Subject that was matched by name has a score again
ImportedOverDeadKeys ==
  /\ lastOp.op = "readerOnload" /\ notice = "imported"
  /\ storedDims.kind = "json" /\ storedSw.kind = "json"
  /\ \E i \in 1..Len(storedSw.value) :
       /\ ~(DOMAIN storedSw.value[i].scores \subseteq ids(storedDims.value))
       /\ \E k \in 1..Len(softwares) :
            /\ softwares[k].id = storedSw.value[i].id
            /\ DOMAIN softwares[k].scores # {}

---------------------------------------------------------------------------
(* Claims about names, the drag-end handler and the merging import.        *)

\* C28: in every reachable state every Dimension and every Subject has a
\* name that is not empty after trimming.
NamesNonEmpty ==
  /\ \A i \in 1..Len(softwares) : trim(softwares[i].name) # <<>>
  /\ \A k \in 1..Len(dimensions) : trim(dimensions[k].name) # <<>>

\* C29: handleDragEnd calls a reorder only with two distinct in-bounds
\* indices of one list, those of the dragged entity and of the drop target:
\* a drop with no target, on the dragged entity itself, or of an entity of
\* one list on an entity of the other calls no reorder and leaves both
\* lists unchanged.  (A reorder call is what makes an effect due.)
DragEndGuards ==
  [][lastOp'.op = "handleDragEnd"
     => LET activeId == lastOp'.x
            overId == lastOp'.y
            within(list) == activeId \in ids(list) /\ overId \in ids(list)
            moved(list, after) ==
              \E i, j \in 0..(Len(list) - 1) :
                /\ i # j
                /\ list[i + 1].id = activeId /\ list[j + 1].id = overId
                /\ after = arrayMove(list, i, j)
        IN  /\ (overId = NoTarget \/ activeId = overId
                  \/ ~(within(softwares) \/ within(dimensions)))
               => (effects' = <<>> /\ softwares' = softwares /\ dimensions' = dimensions)
            /\ effects' # <<>>
               => \/ /\ effects' = <<"softwares">>
                     /\ moved(softwares, softwares') /\ dimensions' = dimensions
                  \/ /\ effects' = <<"dimensions">>
                     /\ moved(dimensions, dimensions') /\ softwares' = softwares]_vars

\* a Subject has just been dropped on a Dimension of a grid with several
\* Subjects, and nothing was reordered
DroppedAcross ==
  /\ lastOp.op = "handleDragEnd"
  /\ lastOp.x \in ids(softwares) /\ lastOp.y \in ids(dimensions)
  /\ lastOp.x # softwares[Len(softwares)].id
  /\ Len(softwares) >= 2
  /\ effects = <<>>

\* the trimmed Dimension names of the data rows of a file's text
RowDimensionNames(text) ==
  LET lines == nonEmptyLines(splitLines(text))
  IN  {trim(parseCSVLine(lines[i])[1]) :
         i \in {j \in 2..Len(lines) : Len(parseCSVLine(lines[j])) >= 3}}

\* C30: a successful merging import keeps every Subject and Dimension that
\* existed before it, with its id, name and colour, at its position, the
\* entities new in the file coming after them; a score or description of
\* such a Subject is unchanged unless the file names both the Subject and
\* the Dimension of its key.
MergeKeepsEntities ==
  [][(OnloadStep /\ notice' = "alertSuccess")
     => LET text == readAsText(pendingRead[1].file)
            hn == HeaderNames(text)
            touched == {dimensions'[k].id : k \in {j \in 1..Len(dimensions') :
                                                     dimensions'[j].name \in RowDimensionNames(text)}}
        IN  /\ Len(dimensions') >= Len(dimensions)
            /\ SubSeq(dimensions', 1, Len(dimensions)) = dimensions
            /\ Len(softwares') >= Len(softwares)
            /\ \A i \in 1..Len(softwares) :
                 LET old == softwares[i]
                     new == softwares'[i]
                     named == \E k \in 1..Len(hn) : hn[k] = old.name
                 IN  /\ new.id = old.id /\ new.name = old.name /\ new.color = old.color
                     /\ \A key \in DOMAIN old.scores :
                          (~named \/ key \notin touched)
                            => (key \in DOMAIN new.scores /\ new.scores[key] = old.scores[key])
                     /\ \A key \in DOMAIN old.descriptions :
                          (~named \/ key \notin touched)
                            => (key \in DOMAIN new.descriptions
                                /\ new.descriptions[key] = old.descriptions[key])]_vars

====
